---------------------------- MODULE Spec2Model ----------------------------
(***************************************************************************)
(* Model of the snift-backend scoring service: the POST /scores handler    *)
(* (controllers.GetScore), the aggregation in                               *)
(* services.CalculateOverallScore and the scorers it calls.                 *)
(*                                                                          *)
(* Go strings on which the code slices, trims or searches are sequences of  *)
(* one-character strings, so that strings.HasPrefix, HasSuffix, Contains,   *)
(* TrimSpace, ToLower, EqualFold and the slice expression s[1:len(s)-1]     *)
(* are computed, not assumed.                                               *)
(***************************************************************************)
EXTENDS Integers, Sequences, FiniteSets, TLC

(***************************************************************************)
(* String literals.                                                         *)
(***************************************************************************)
sHttp ==
    <<"h","t","t","p">>
sHttps ==
    <<"h","t","t","p","s">>
sFtp ==
    <<"f","t","p">>
sWwwDot ==
    <<"w","w","w",".">>
sColon ==
    <<":">>
sPort80 ==
    <<"8","0">>
sPort443 ==
    <<"4","4","3">>
sExample ==
    <<"e","x","a","m","p","l","e">>
sExampleCom ==
    <<"e","x","a","m","p","l","e",".","c","o","m">>
sWwwExampleCom ==
    <<"w","w","w",".","e","x","a","m","p","l","e",".","c","o","m">>
sExampleComPort ==
    <<"e","x","a","m","p","l","e",".","c","o","m",":","8","4","4","3">>
sRawHttpWww ==
    <<"h","t","t","p",":","/","/","w","w","w",".","e","x","a","m","p","l","e",".","c","o","m">>
sRawHttpsPort ==
    <<"h","t","t","p","s",":","/","/","e","x","a","m","p","l","e",".","c","o","m",":","8","4","4","3">>
sRawFtp ==
    <<"f","t","p",":","/","/","e","x","a","m","p","l","e",".","c","o","m">>
sZero ==
    <<"0">>
sOne ==
    <<"1">>
sXssBlock ==
    <<"1",";"," ","m","o","d","e","=","b","l","o","c","k">>
sXssOn ==
    <<"o","n">>
sDeny ==
    <<"d","e","n","y">>
sSameorigin ==
    <<"s","a","m","e","o","r","i","g","i","n">>
sAllowFrom ==
    <<"a","l","l","o","w","-","f","r","o","m">>
sXfDENY ==
    <<"D","E","N","Y">>
sXfSameOriginPadded ==
    <<" ","S","a","m","e","O","r","i","g","i","n"," ">>
sXfAllowFrom ==
    <<"A","L","L","O","W","-","F","R","O","M"," ","h","t","t","p","s",":","/","/","a",".","e","x","a","m","p","l","e">>
sXfBogus ==
    <<"a","l","l","o","w","a","l","l">>
sMaxAge ==
    <<"m","a","x","-","a","g","e">>
sIncludeSubDomains ==
    <<"i","n","c","l","u","d","e","S","u","b","D","o","m","a","i","n","s">>
sPreload ==
    <<"p","r","e","l","o","a","d">>
sHstsPlain ==
    <<"m","a","x","-","a","g","e","=","3","1","5","3","6","0","0","0">>
sHstsSub ==
    <<"m","a","x","-","a","g","e","=","3","1","5","3","6","0","0","0",";"," ","i","n","c","l","u","d","e","S","u","b","D","o","m","a","i","n","s">>
sHstsPreload ==
    <<"m","a","x","-","a","g","e","=","0",";"," ","p","r","e","l","o","a","d">>
sHstsNoPrefix ==
    <<"i","n","c","l","u","d","e","S","u","b","D","o","m","a","i","n","s",";"," ","m","a","x","-","a","g","e","=","1">>
sCspValue ==
    <<"d","e","f","a","u","l","t","-","s","r","c"," ","'","s","e","l","f","'">>
sPkpValue ==
    <<"p","i","n","-","s","h","a","2","5","6","=","k">>
sNoReferrer ==
    <<"n","o","-","r","e","f","e","r","r","e","r">>
sNoReferrerWhenDowngrade ==
    <<"n","o","-","r","e","f","e","r","r","e","r","-","w","h","e","n","-","d","o","w","n","g","r","a","d","e">>
sOrigin ==
    <<"o","r","i","g","i","n">>
sOriginWhenCrossOrigin ==
    <<"o","r","i","g","i","n","-","w","h","e","n","-","c","r","o","s","s","-","o","r","i","g","i","n">>
sSameOriginRP ==
    <<"s","a","m","e","-","o","r","i","g","i","n">>
sStrictOrigin ==
    <<"s","t","r","i","c","t","-","o","r","i","g","i","n">>
sStrictOriginWhenCrossOrigin ==
    <<"s","t","r","i","c","t","-","o","r","i","g","i","n","-","w","h","e","n","-","c","r","o","s","s","-","o","r","i","g","i","n">>
sUnsafeUrl ==
    <<"u","n","s","a","f","e","-","u","r","l">>
sRpMixedCase ==
    <<" ","N","o","-","R","e","f","e","r","r","e","r">>
sRpBogus ==
    <<"n","e","v","e","r">>
sNosniff ==
    <<"n","o","s","n","i","f","f">>
sXctMixedCase ==
    <<"N","o","S","n","i","f","f">>
sXctBogus ==
    <<"s","n","i","f","f">>
sHTTP20 ==
    <<"H","T","T","P","/","2",".","0">>
sHTTP11 ==
    <<"H","T","T","P","/","1",".","1">>
sHTTP10 ==
    <<"H","T","T","P","/","1",".","0">>
sNoSuchHost ==
    <<"n","o"," ","s","u","c","h"," ","h","o","s","t">>
sErrHead ==
    <<"H","e","a","d"," ","\"">>
sErrAfterURL ==
    <<"\"",":"," ">>
sErrLookup ==
    <<"d","i","a","l"," ","t","c","p",":"," ","l","o","o","k","u","p"," ">>
sErrNoSuchHostTail ==
    <<":"," ","n","o"," ","s","u","c","h"," ","h","o","s","t">>
sErrRefused ==
    <<"d","i","a","l"," ","t","c","p",":"," ","c","o","n","n","e","c","t",":"," ","c","o","n","n","e","c","t","i","o","n"," ","r","e","f","u","s","e","d">>
sErrUnsupported ==
    <<"u","n","s","u","p","p","o","r","t","e","d"," ","p","r","o","t","o","c","o","l"," ","s","c","h","e","m","e">>
sDashAll ==
    <<"-","a","l","l">>
sTildeAll ==
    <<"~","a","l","l">>
sQueryAll ==
    <<"?","a","l","l">>
sPlusAll ==
    <<"+","a","l","l">>
sVDMARC ==
    <<"v","=","D","M","A","R","C">>
sTxtStrict ==
    <<"\"","v","=","s","p","f","1"," ","-","a","l","l","\"">>
sTxtSoft ==
    <<"\"","v","=","s","p","f","1"," ","~","a","l","l","\"">>
sTxtNeutral ==
    <<"\"","v","=","s","p","f","1"," ","?","a","l","l","\"">>
sTxtPass ==
    <<"\"","v","=","s","p","f","1"," ","+","a","l","l","\"">>
sTxtPadded ==
    <<"\"","v","=","s","p","f","1"," ","-","a","l","l"," ","\"">>
sTxtOther ==
    <<"\"","s","i","t","e","-","v","e","r","i","f","i","c","a","t","i","o","n","=","k","\"">>
sTxtDigError ==
    <<";",";"," ","c","o","n","n","e","c","t","i","o","n"," ","t","i","m","e","d"," ","o","u","t",";"," ","n","o"," ","s","e","r","v","e","r","s"," ","c","o","u","l","d"," ","b","e"," ","r","e","a","c","h","e","d">>
sTxtOneChar ==
    <<";">>
sTxtNoText ==
    <<"\"","\"">>
sDmarcValid ==
    <<"\"","v","=","D","M","A","R","C","1",";"," ","p","=","n","o","n","e","\"","\n">>
sDmarcOther ==
    <<"\"","v","=","s","p","f","1"," ","-","a","l","l","\"","\n">>
sDmarcDigError ==
    <<";",";"," ","c","o","n","n","e","c","t","i","o","n"," ","t","i","m","e","d"," ","o","u","t",";"," ","n","o"," ","s","e","r","v","e","r","s"," ","c","o","u","l","d"," ","b","e"," ","r","e","a","c","h","e","d","\n">>

(***************************************************************************)
(* The Go string functions the code calls.                                  *)
(***************************************************************************)
HasPrefix(s, prefix) ==
    Len(s) >= Len(prefix) /\ SubSeq(s, 1, Len(prefix)) = prefix

HasSuffix(s, suffix) ==
    Len(s) >= Len(suffix) /\ SubSeq(s, Len(s) - Len(suffix) + 1, Len(s)) = suffix

Contains(s, substr) ==
    \E i \in 1..(Len(s) - Len(substr) + 1) : SubSeq(s, i, i + Len(substr) - 1) = substr

IsSpace(c) ==
    c \in {" ", "\t", "\n", "\r"}

RECURSIVE TrimLeft(_)
TrimLeft(s) ==
    IF s # <<>> /\ IsSpace(Head(s)) THEN TrimLeft(Tail(s)) ELSE s

RECURSIVE TrimRight(_)
TrimRight(s) ==
    IF s # <<>> /\ IsSpace(s[Len(s)]) THEN TrimRight(SubSeq(s, 1, Len(s) - 1)) ELSE s

TrimSpace(s) ==
    TrimRight(TrimLeft(s))

UpperCase ==
    <<"A","B","C","D","E","F","G","H","I","J","K","L","M",
      "N","O","P","Q","R","S","T","U","V","W","X","Y","Z">>

LowerCase ==
    <<"a","b","c","d","e","f","g","h","i","j","k","l","m",
      "n","o","p","q","r","s","t","u","v","w","x","y","z">>

ToLowerChar(c) ==
    IF \E i \in DOMAIN UpperCase : UpperCase[i] = c
    THEN LowerCase[CHOOSE i \in DOMAIN UpperCase : UpperCase[i] = c]
    ELSE c

RECURSIVE ToLower(_)
ToLower(s) ==
    IF s = <<>> THEN <<>> ELSE <<ToLowerChar(Head(s))>> \o ToLower(Tail(s))

\* strings.EqualFold on ASCII text: equality under case folding.
EqualFold(s, t) ==
    ToLower(s) = ToLower(t)

\* strings.Replace(s, old, new, -1): every non-overlapping occurrence, left to right.
RECURSIVE ReplaceAll(_, _, _)
ReplaceAll(s, old, new) ==
    IF Len(s) < Len(old) \/ old = <<>> THEN s
    ELSE IF HasPrefix(s, old)
         THEN new \o ReplaceAll(SubSeq(s, Len(old) + 1, Len(s)), old, new)
         ELSE <<Head(s)>> \o ReplaceAll(Tail(s), old, new)

\* The slice expression s[lo:hi] (0-based, hi exclusive) panics unless
\* 0 <= lo <= hi <= len(s).
SliceInRange(s, lo, hi) ==
    0 <= lo /\ lo <= hi /\ hi <= Len(s)

Slice(s, lo, hi) ==
    SubSeq(s, lo + 1, hi)

\* bufio.ScanLines over the text: the lines without their terminators and
\* without one trailing carriage return; a final line without a terminator
\* counts, unless it is empty.
RECURSIVE ScanLines(_, _)
ScanLines(text, cur) ==
    LET dropCR == IF Len(cur) > 0 /\ cur[Len(cur)] = "\r"
                  THEN SubSeq(cur, 1, Len(cur) - 1) ELSE cur
    IN  IF text = <<>> THEN (IF cur = <<>> THEN <<>> ELSE <<dropCR>>)
        ELSE IF Head(text) = "\n" THEN <<dropCR>> \o ScanLines(Tail(text), <<>>)
        ELSE ScanLines(Tail(text), Append(cur, Head(text)))

RECURSIVE SumSeq(_)
SumSeq(s) ==
    IF s = <<>> THEN 0 ELSE Head(s) + SumSeq(Tail(s))

(***************************************************************************)
(* Constants of services/calculate.go.  Go arrays are indexed from 0, the   *)
(* tuples here from 1.                                                      *)
(***************************************************************************)
XSSHeader == "X-Xss-Protection"
XFrameHeader == "X-Frame-Options"
HSTSHeader == "Strict-Transport-Security"
CSPHeader == "Content-Security-Policy"
PKPHeader == "Public-Key-Pins"
RPHeader == "Referrer-Policy"
XContentTypeHeader == "X-Content-Type-Options"

XSSValues == <<sZero, sOne>>
XFrameValues == <<sDeny, sSameorigin, sAllowFrom>>
HSTSValues == <<sMaxAge, sIncludeSubDomains, sPreload>>
ReferrerPolicyValues ==
    <<sNoReferrer, sNoReferrerWhenDowngrade, sOrigin, sOriginWhenCrossOrigin,
      sSameOriginRP, sStrictOrigin, sStrictOriginWhenCrossOrigin, sUnsafeUrl>>
XContentTypeHeaderValue == sNosniff
HTTPVersion == <<sHTTP20, sHTTP11>>
MaxIncidentResponseTime == 720

\* crypto/tls protocol version numbers.
VersionTLS10 == 769
VersionTLS11 == 770
VersionTLS12 == 771

(***************************************************************************)
(* The per-check scorers.                                                   *)
(***************************************************************************)
\* score = -1 is the initial value, kept when the scheme is neither http nor https.
CalculateProtocolScore(protocol) ==
    IF protocol = sHttp THEN [score |-> 0, message |-> "unencrypted"]
    ELSE IF protocol = sHttps THEN [score |-> 5, message |-> "secure"]
    ELSE [score |-> -1, message |-> "Protocol Not Found"]

getDefaultPort(protocol) ==
    IF protocol = sHttps THEN sPort443 ELSE sPort80

\* The auxiliary report URL is discarded by the caller and is not modelled.
GetXSSScore(XSSValue) ==
    LET v == TrimSpace(XSSValue) IN
    IF v = XSSValues[1] THEN 0
    ELSE IF HasPrefix(v, XSSValues[2]) THEN 5
    ELSE 0

GetXFrameScore_KeepDefault(XFrameValue) ==
    LET v == TrimSpace(ToLower(XFrameValue)) IN
    IF v = XFrameValues[1] \/ v = XFrameValues[2] THEN 5
    ELSE IF HasPrefix(v, XFrameValues[3]) THEN 4
    ELSE 1

GetXFrameScore(XFrameValue) ==
    LET v == TrimSpace(ToLower(XFrameValue)) IN
    IF v = XFrameValues[1] \/ v = XFrameValues[2] THEN 5
    ELSE IF HasPrefix(v, XFrameValues[3]) THEN 4
    ELSE 0

GetHSTSScore_Overscore(HSTS) ==
    IF HasPrefix(HSTS, HSTSValues[1])
    THEN (IF Contains(HSTS, HSTSValues[2]) \/ Contains(HSTS, HSTSValues[3]) THEN 6 ELSE 4)
    ELSE 0

GetHSTSScore(HSTS) ==
    IF HasPrefix(HSTS, HSTSValues[1])
    THEN (IF Contains(HSTS, HSTSValues[2]) \/ Contains(HSTS, HSTSValues[3]) THEN 5 ELSE 4)
    ELSE 0

GetReferrerPolicyScore(ReferrerPolicy) ==
    LET v == TrimSpace(ToLower(ReferrerPolicy)) IN
    IF v = ReferrerPolicyValues[1] THEN 5
    ELSE IF \E i \in 2..7 : v = ReferrerPolicyValues[i] THEN 4
    ELSE IF v = ReferrerPolicyValues[8] THEN 2
    ELSE 0

GetXContentTypeScore(XContentType) ==
    IF EqualFold(XContentType, XContentTypeHeaderValue) THEN 5 ELSE 0

GetHTTPVersionScore_Swapped(Proto) ==
    IF EqualFold(Proto, HTTPVersion[1]) THEN 2
    ELSE IF EqualFold(Proto, HTTPVersion[2]) THEN 5
    ELSE 0

GetHTTPVersionScore(Proto) ==
    IF EqualFold(Proto, HTTPVersion[1]) THEN 5
    ELSE IF EqualFold(Proto, HTTPVersion[2]) THEN 2
    ELSE 0

GetTLSVersionScore(Version) ==
    IF Version = VersionTLS12 THEN 5
    ELSE IF Version = VersionTLS11 THEN 3
    ELSE IF Version = VersionTLS10 THEN 1
    ELSE 0

(***************************************************************************)
(* Optional values: <<>> is Go's nil / absent, <<v>> is a present v.        *)
(***************************************************************************)
Nil == <<>>
Some(v) == <<v>>

(***************************************************************************)
(* The Header Scorer on one HEAD response.  A response is a record          *)
(*   [Header : header name -> value, Proto : text, TLS : Nil or <<version>>]*)
(* whose Header holds the present headers only (a Go map).                  *)
(***************************************************************************)
\* The successive values of the local `score` that are added to totalScore,
\* one per header check, in the order of the code.
HeaderCheckScores(responseHeaderMap) ==
    LET ok(name) == name \in DOMAIN responseHeaderMap
        val(name) == responseHeaderMap[name]
    IN  << IF ok(XSSHeader) THEN GetXSSScore(val(XSSHeader)) ELSE 0,
           IF ok(XFrameHeader) THEN GetXFrameScore(val(XFrameHeader)) ELSE 1,
           IF ok(HSTSHeader) THEN GetHSTSScore(val(HSTSHeader)) ELSE 2,
           IF ok(CSPHeader) THEN 5 ELSE 3,
           IF ok(PKPHeader) THEN 5 ELSE 3,
           IF ok(RPHeader) THEN GetReferrerPolicyScore(val(RPHeader)) ELSE 2,
           IF ok(XContentTypeHeader) THEN GetXContentTypeScore(val(XContentTypeHeader)) ELSE 0 >>

\* What the TLS check adds to totalScore.
HeaderTLSScore(response) ==
    IF response.TLS # Nil THEN GetTLSVersionScore(response.TLS[1]) ELSE 0

HeaderMaxScore_TLSGated(response) ==
    0 + 5 + 5 + 5 + 5 + 5 + 5 + 5 + 5 + (IF response.TLS # Nil THEN 5 ELSE 0)

\* maxScore: nine unconditional increments of 5.
HeaderMaxScore(response) ==
    0 + 5 + 5 + 5 + 5 + 5 + 5 + 5 + 5 + 5

\* The part of GetResponseHeaderScore after a successful HEAD.  The lookup
\* of the Server header in the server catalog adds nothing to either result
\* and is left out.
GetResponseHeaderScore(response) ==
    [ totalScore |-> SumSeq(HeaderCheckScores(response.Header))
                       + GetHTTPVersionScore(response.Proto)
                       + HeaderTLSScore(response),
      maxScore   |-> HeaderMaxScore(response) ]

(***************************************************************************)
(* The Mail-Auth scorers on the output of the two dig commands.             *)
(***************************************************************************)
\* The scan loop of GetSPFScore over the remaining lines; panic is TRUE when
\* the slice txtRecord[1 : len(txtRecord)-1] is out of range.
RECURSIVE SPFLoop(_, _, _)
SPFLoop(lines, totalScore, spfRecordCount) ==
    IF lines = <<>>
    THEN [panic |-> FALSE, totalScore |-> totalScore, maxScore |-> spfRecordCount * 5]
    ELSE LET line == Head(lines) IN
         IF ~SliceInRange(line, 1, Len(line) - 1)
         THEN [panic |-> TRUE, totalScore |-> totalScore, maxScore |-> 0]
         ELSE LET txtRecord == TrimSpace(Slice(line, 1, Len(line) - 1)) IN
              IF HasSuffix(txtRecord, sDashAll)
              THEN SPFLoop(Tail(lines), totalScore + 5, spfRecordCount + 1)
              ELSE IF HasSuffix(txtRecord, sTildeAll)
              THEN SPFLoop(Tail(lines), totalScore + 3, spfRecordCount + 1)
              ELSE IF HasSuffix(txtRecord, sQueryAll)
              THEN SPFLoop(Tail(lines), totalScore + 2, spfRecordCount + 1)
              ELSE IF HasSuffix(txtRecord, sPlusAll)
              THEN SPFLoop(Tail(lines), totalScore, spfRecordCount + 1)
              ELSE SPFLoop(Tail(lines), totalScore, spfRecordCount)

GetSPFScore_EveryLineCounts(out) ==
    LET r == SPFLoop(ScanLines(out, <<>>), 0, 0) IN
    [r EXCEPT !.maxScore = IF r.panic THEN 0 ELSE Len(ScanLines(out, <<>>)) * 5]

\* GetSPFScore on the command's standard output; the command's error is
\* printed and otherwise ignored.
GetSPFScore(out) ==
    SPFLoop(ScanLines(out, <<>>), 0, 0)

\* GetDMARCScore on the command's standard output, when the command succeeded.
GetDMARCScore(out) ==
    IF Len(out) > 2
    THEN (IF HasPrefix(TrimSpace(Slice(out, 1, Len(out) - 1)), sVDMARC) THEN 5 ELSE 0)
    ELSE 0

\* The host the two lookups are made for.
MailHost(h) ==
    IF HasPrefix(h, sWwwDot) THEN ReplaceAll(h, sWwwDot, <<>>) ELSE h

(***************************************************************************)
(* GetPreviousVulnerabilitiesScore.  Instants and durations are counted in  *)
(* minutes; instants from 1 January 2020 00:00 UTC.  The date texts of the  *)
(* feed are the ones below: the report date, fix dates 719 hours, 720 hours *)
(* (also written in another zone) and 720 hours and one minute after it,    *)
(* and a text that is not in the RFC1123Z layout.                           *)
(***************************************************************************)
dReported == "Wed, 01 Jan 2020 00:00:00 +0000"
dFixed719h == "Thu, 30 Jan 2020 23:00:00 +0000"
dFixed720h == "Fri, 31 Jan 2020 00:00:00 +0000"
dFixed720hZone == "Fri, 31 Jan 2020 02:00:00 +0200"
dFixed720h1m == "Fri, 31 Jan 2020 00:01:00 +0000"
dEmpty == ""

\* time.Parse(time.RFC1123Z, text): the instant, or with an error the zero
\* Time, 1 January of year 1, 737424 days before 1 January 2020.
ParseRFC1123Z(text) ==
    LET ZeroTime == 0 - 737424 * 24 * 60 IN
    CASE text = dReported -> [t |-> ((1 - 1) * 24 + 0) * 60 + 0 - 0, err |-> FALSE]
      [] text = dFixed719h -> [t |-> ((30 - 1) * 24 + 23) * 60 + 0 - 0, err |-> FALSE]
      [] text = dFixed720h -> [t |-> ((31 - 1) * 24 + 0) * 60 + 0 - 0, err |-> FALSE]
      [] text = dFixed720hZone -> [t |-> ((31 - 1) * 24 + 2) * 60 + 0 - 2 * 60, err |-> FALSE]
      [] text = dFixed720h1m -> [t |-> ((31 - 1) * 24 + 0) * 60 + 1 - 0, err |-> FALSE]
      [] OTHER -> [t |-> ZeroTime, err |-> TRUE]

\* t.Sub(u): the duration t - u, saturated at the largest Duration, 2^63 - 1
\* nanoseconds (here in whole minutes), and at the smallest.
Sub(t, u) ==
    LET maxDuration == 2562047 * 60 + 47 IN
    IF t - u > maxDuration THEN maxDuration
    ELSE IF t - u < 0 - maxDuration THEN 0 - maxDuration
    ELSE t - u

\* What one incident adds to totalScore; the errors of time.Parse are dropped,
\* and "diff.Hours() > MaxIncidentResponseTime" is taken in minutes.
IncidentPoints_AtThreshold(incident) ==
    IF incident.Fixed
    THEN LET ReportedDate == ParseRFC1123Z(incident.ReportedDate).t
             FixedDate == ParseRFC1123Z(incident.FixedDate).t
             diff == Sub(FixedDate, ReportedDate)
         IN  IF ~(diff < MaxIncidentResponseTime * 60) THEN 5 ELSE 10
    ELSE 0

IncidentPoints(incident) ==
    IF incident.Fixed
    THEN LET ReportedDate == ParseRFC1123Z(incident.ReportedDate).t
             FixedDate == ParseRFC1123Z(incident.FixedDate).t
             diff == Sub(FixedDate, ReportedDate)
         IN  IF diff > MaxIncidentResponseTime * 60 THEN 5 ELSE 10
    ELSE 0

RECURSIVE IncidentLoop(_, _)
IncidentLoop(IncidentList, totalScore) ==
    IF IncidentList = <<>> THEN totalScore
    ELSE IncidentLoop(Tail(IncidentList), totalScore + IncidentPoints(Head(IncidentList)))

\* f is what the feed gives: [failed, IncidentList], failed when http.Get,
\* ReadAll or xml.Unmarshal returns an error, on which log.Fatalln ends the
\* process.
GetPreviousVulnerabilitiesScore(f) ==
    IF f.failed
    THEN [fatal |-> TRUE, totalScore |-> 0, maxScore |-> 0]
    ELSE [fatal |-> FALSE,
          totalScore |-> IncidentLoop(f.IncidentList, 0),
          maxScore |-> Len(f.IncidentList) * 10]

(***************************************************************************)
(* Normalisation.  The code computes math.Ceil((score/maximumScore)*100)    *)
(* in float64.  The quotient is rounded before it is multiplied by 100, so  *)
(* for the pairs of FloatCeilExcess the product lies just above an integer  *)
(* and the ceiling is one more than the exact ceiling of 100*score/max.     *)
(* The table lists every such pair with 0 <= score <= max <= 100 (IEEE 754  *)
(* binary64, round to nearest even).  The result is kept in hundredths.     *)
(***************************************************************************)
FloatCeilExcess ==
    { <<11, 20>>, <<7, 25>>, <<14, 25>>, <<22, 40>>, <<7, 50>>, <<14, 50>>,
      <<28, 50>>, <<33, 60>>, <<21, 75>>, <<42, 75>>, <<44, 80>>, <<7, 100>>,
      <<14, 100>>, <<28, 100>>, <<55, 100>>, <<56, 100>> }

Normalize(s, m) ==
    (0 - ((0 - 100 * s) \div m)) + (IF <<s, m>> \in FloatCeilExcess THEN 1 ELSE 0)

(***************************************************************************)
(* The Certificate Summarizer.  dial is the outcome of the TLS dial:        *)
(* [ok : BOOLEAN, ip, issuer, commonName, notBefore, notAfter, error].      *)
(***************************************************************************)
GetCertificate(h, dial) ==
    IF ~dial.ok
    THEN [ DomainName |-> h, IP |-> "", Issuer |-> "", CommonName |-> "",
           SANs |-> {}, NotBefore |-> "", NotAfter |-> "", Error |-> dial.error ]
    ELSE [ DomainName |-> h, IP |-> dial.ip, Issuer |-> dial.issuer,
           CommonName |-> dial.commonName, SANs |-> dial.sans,
           NotBefore |-> dial.notBefore, NotAfter |-> dial.notAfter, Error |-> "" ]

(***************************************************************************)
(* Inputs.  A request URL is given with the result of url.Parse on it:      *)
(* [raw, Scheme, Host].                                                     *)
(***************************************************************************)
uExample == [raw |-> sExample, Scheme |-> <<>>, Host |-> <<>>]
uHttpWww == [raw |-> sRawHttpWww, Scheme |-> sHttp, Host |-> sWwwExampleCom]
uHttpsPort == [raw |-> sRawHttpsPort, Scheme |-> sHttps, Host |-> sExampleComPort]
uFtp == [raw |-> sRawFtp, Scheme |-> sFtp, Host |-> sExampleCom]

URLs == {uExample, uHttpWww, uHttpsPort, uFtp}

\* A request: whether its X-Auth-Token validates, and its body, Nil when the
\* body is not the JSON of a ScoresRequest.
Requests ==
    { [tokenValid |-> t, body |-> b] : t \in BOOLEAN, b \in {Nil} \cup {Some(u) : u \in URLs} }

\* utils.IsValidURL: a URL without scheme or host, such as "example", is invalid.
IsValidURL(u) ==
    u.Scheme # <<>> /\ u.Host # <<>>

\* utils.ValidateToken.
ValidateToken(r) ==
    r.tokenValid

\* net.SplitHostPort on host:port (no IPv6 literal among the inputs).
SplitHostPort(hostport) ==
    LET i == CHOOSE k \in 1..Len(hostport) :
                 hostport[k] = ":" /\ \A j \in (k + 1)..Len(hostport) : hostport[j] # ":"
    IN  [host |-> SubSeq(hostport, 1, i - 1), port |-> SubSeq(hostport, i + 1, Len(hostport))]

\* The header map of a response from the optional value of each header.
MkHeader(opt) ==
    [name \in {n \in DOMAIN opt : opt[n] # Nil} |-> opt[name][1]]

HeaderMaps(X, F, H, C, P, R, T) ==
    { MkHeader(XSSHeader :> x @@ XFrameHeader :> f @@ HSTSHeader :> h @@ CSPHeader :> c
               @@ PKPHeader :> p @@ RPHeader :> r @@ XContentTypeHeader :> t) :
        x \in X, f \in F, h \in H, c \in C, p \in P, r \in R, t \in T }

\* A response for every header map and every pair <<Proto, TLS>>.
MkResponses(headers, connections) ==
    { [Header |-> h, Proto |-> c[1], TLS |-> c[2]] : h \in headers, c \in connections }

\* The responses of the request pipeline: for every check its absent case or
\* its lowest-scoring value, and its highest-scoring value.
Responses ==
    MkResponses(
        HeaderMaps({Nil, Some(sXssBlock)}, {Some(sXfBogus), Some(sXfDENY)},
                   {Some(sHstsNoPrefix), Some(sHstsSub)}, {Nil, Some(sCspValue)},
                   {Nil, Some(sPkpValue)}, {Nil, Some(sRpBogus), Some(sNoReferrer)},
                   {Nil, Some(sNosniff)}),
        { <<sHTTP20, Some(VersionTLS12)>>, <<sHTTP10, Nil>> })

\* The responses the Header Scorer is checked on: every case of the first
\* three checks combined, every case of the last four combined, and the
\* header maps of Responses, each with every protocol and TLS version.
AllHeaderMaps ==
    HeaderMaps({Nil, Some(sZero), Some(sXssBlock), Some(sXssOn)},
               {Nil, Some(sXfDENY), Some(sXfSameOriginPadded), Some(sXfAllowFrom),
                Some(sXfBogus)},
               {Nil, Some(sHstsPlain), Some(sHstsSub), Some(sHstsPreload),
                Some(sHstsNoPrefix)},
               {Nil}, {Nil}, {Nil}, {Nil})
    \cup
    HeaderMaps({Nil}, {Nil}, {Nil},
               {Nil, Some(sCspValue)},
               {Nil, Some(sPkpValue)},
               {Nil, Some(sRpBogus), Some(sRpMixedCase)}
                   \cup {Some(ReferrerPolicyValues[i]) : i \in 1..8},
               {Nil, Some(sNosniff), Some(sXctMixedCase), Some(sXctBogus)})
    \cup
    {r.Header : r \in Responses}

AllResponses ==
    MkResponses(
        AllHeaderMaps,
        { <<p, v>> : p \in {sHTTP20, sHTTP11, sHTTP10},
                     v \in {Nil, Some(VersionTLS10), Some(VersionTLS11), Some(VersionTLS12),
                            Some(VersionTLS12 + 1)} })

\* The text of the *url.Error that http.Head returns.
HeadErrorText(u, inner) ==
    sErrHead \o u.raw \o sErrAfterURL \o inner

\* The outcomes of http.Head(url): the default transport serves http and
\* https only; otherwise the host does not resolve, refuses the connection,
\* or answers.
HeadOutcomes(u, responses) ==
    IF u.Scheme \notin {sHttp, sHttps}
    THEN { [outcome |-> "unsupported scheme",
            err |-> Some(HeadErrorText(u, sErrUnsupported)), response |-> Nil] }
    ELSE { [outcome |-> "host not resolved",
            err |-> Some(HeadErrorText(u, sErrLookup \o u.Host \o sErrNoSuchHostTail)),
            response |-> Nil],
           [outcome |-> "connection refused",
            err |-> Some(HeadErrorText(u, sErrRefused)), response |-> Nil] }
         \cup { [outcome |-> "ok", err |-> Nil, response |-> Some(r)] : r \in responses }

\* Bound on the number of lines the TXT lookup prints.
MaxTXTLines == 2

TXTLines ==
    {sTxtStrict, sTxtPass, sTxtOther, sTxtOneChar}

RECURSIVE SeqsUpTo(_, _)
SeqsUpTo(S, n) ==
    IF n = 0 THEN {<<>>}
    ELSE LET shorter == SeqsUpTo(S, n - 1) IN
         shorter \cup {Append(q, x) : q \in shorter, x \in S}

RECURSIVE JoinLines(_)
JoinLines(lines) ==
    IF lines = <<>> THEN <<>> ELSE Head(lines) \o <<"\n">> \o JoinLines(Tail(lines))

\* The outcomes of exec.Command(...).Output() for the TXT query: the lines
\* printed, or a failure with nothing or dig's diagnostic on standard output.
TXTOutcomes ==
    { [failed |-> FALSE, out |-> JoinLines(q)] : q \in SeqsUpTo(TXTLines, MaxTXTLines) }
    \cup { [failed |-> TRUE, out |-> o] : o \in {<<>>, JoinLines(<<sTxtDigError>>)} }

\* The outcomes of the DMARC query.
DMARCOutcomes ==
    { [failed |-> FALSE, out |-> o] : o \in {<<>>, sDmarcValid, sDmarcOther} }
    \cup { [failed |-> TRUE, out |-> o] : o \in {sDmarcDigError} }

\* The outcomes of the TLS dial.
DialOutcomes ==
    { [ok |-> TRUE, ip |-> "192.0.2.7", issuer |-> "Example CA", commonName |-> "example.com",
       sans |-> {"example.com", "www.example.com"}, notBefore |-> "2026-01-01 00:00:00 +0000 UTC",
       notAfter |-> "2027-01-01 00:00:00 +0000 UTC", error |-> ""],
      [ok |-> FALSE, ip |-> "", issuer |-> "", commonName |-> "", sans |-> {},
       notBefore |-> "", notAfter |-> "", error |-> "dial tcp: connect: connection refused"] }

\* The JSON error replies of utils.Unauthorized, BadRequest, InternalServerError.
ErrorReply(code, text) ==
    Some([code |-> code, error |-> text, body |-> Nil])

\* The error result of the three-argument GetCertificate that the aggregator
\* calls: a failed dial is reported inside the summary, not as an error.
certError(dial) ==
    Nil

(***************************************************************************)
(* State.                                                                   *)
(*   pc            where the handler of the current request stands          *)
(*   alive         FALSE once the process has exited (log.Fatal)            *)
(*   req           the request being served                                 *)
(*   probes        the external calls issued for the request, in order      *)
(*   protocol, host, port, protocolScore, messages, score, maximumScore,    *)
(*   headerScore, maxScore, totalScore, certificates                        *)
(*                 the locals of CalculateOverallScore                      *)
(*   response, checks   the HEAD response and the per-check scores of       *)
(*                 GetResponseHeaderScore                                   *)
(*   mail          totalScore and maximumScore of                           *)
(*                 GetMailServerConfigurationScore                          *)
(*   txtOut, dmarcOut   the output of the two dig commands                  *)
(*   result        what CalculateOverallScore returns: (response, error)    *)
(*   reply         what GetScore writes to the client                       *)
(*   feed, vuln    the incident feed GetPreviousVulnerabilitiesScore reads   *)
(*                 and the (totalScore, maxScore) it returns                 *)
(***************************************************************************)
VARIABLES pc, alive, req, probes, protocol, host, port, protocolScore, messages,
          score, maximumScore, headerScore, maxScore, response, checks, mail,
          txtOut, dmarcOut, totalScore, certificates, result, reply,
          feed, vuln

vars ==
    <<pc, alive, req, probes, protocol, host, port, protocolScore, messages,
      score, maximumScore, headerScore, maxScore, response, checks, mail,
      txtOut, dmarcOut, totalScore, certificates, result, reply,
      feed, vuln>>

parsed ==
    <<protocol, host, port, protocolScore, messages>>

headerVars ==
    <<headerScore, maxScore, response, checks>>

mailVars ==
    <<mail, txtOut, dmarcOut>>

incidentVars ==
    <<feed, vuln>>

NoRequest ==
    [tokenValid |-> FALSE, body |-> Nil]

NoMail ==
    [totalScore |-> 0, maximumScore |-> 0]

NoResult ==
    [response |-> Nil, err |-> Nil]

NoVuln ==
    [totalScore |-> 0, maxScore |-> 0]

\* The locals of a handler that has not run yet.
FreshLocals ==
    /\ probes = <<>>
    /\ protocol = <<>> /\ host = <<>> /\ port = <<>>
    /\ protocolScore = 0 /\ messages = <<>>
    /\ score = 0 /\ maximumScore = 0
    /\ headerScore = 0 /\ maxScore = 0
    /\ response = Nil /\ checks = <<>>
    /\ mail = NoMail /\ txtOut = Nil /\ dmarcOut = Nil
    /\ totalScore = Nil /\ certificates = Nil
    /\ result = NoResult
    /\ reply = Nil
    /\ feed = Nil /\ vuln = NoVuln

Init ==
    /\ pc = "idle"
    /\ alive = TRUE
    /\ req = NoRequest
    /\ FreshLocals

\* An external call: its kind, "ok" or how it failed, and what it was made for.
Probe(kind, outcome, target) ==
    [kind |-> kind, outcome |-> outcome, target |-> target]

\* A handler starts with fresh locals and nothing probed.
ResetLocals ==
    /\ probes' = <<>>
    /\ protocol' = <<>> /\ host' = <<>> /\ port' = <<>>
    /\ protocolScore' = 0 /\ messages' = <<>>
    /\ score' = 0 /\ maximumScore' = 0
    /\ headerScore' = 0 /\ maxScore' = 0
    /\ response' = Nil /\ checks' = <<>>
    /\ mail' = NoMail /\ txtOut' = Nil /\ dmarcOut' = Nil
    /\ totalScore' = Nil /\ certificates' = Nil
    /\ result' = NoResult
    /\ feed' = Nil /\ vuln' = NoVuln

(***************************************************************************)
(* GetScore, up to the call of CalculateOverallScore: the token check, the  *)
(* body decode and the URL validation.  A new request is taken when the     *)
(* previous handler has returned or panicked (net/http recovers a handler's *)
(* panic and keeps serving).                                                *)
(***************************************************************************)
GetScore_URLBeforeToken(r) ==
    /\ alive
    /\ pc \in {"idle", "done", "panicked"}
    /\ req' = r
    /\ ResetLocals
    /\ alive' = alive
    /\ IF r.body = Nil
       THEN /\ reply' = ErrorReply(400, "Unexpected Error Occured")
            /\ pc' = "done"
       ELSE IF ~IsValidURL(r.body[1])
       THEN /\ reply' = ErrorReply(400, "Invalid URL")
            /\ pc' = "done"
       ELSE IF ~ValidateToken(r)
       THEN /\ reply' = ErrorReply(401, "Invalid Token")
            /\ pc' = "done"
       ELSE /\ reply' = Nil
            /\ pc' = "calculate"

GetScore(r) ==
    /\ alive
    /\ pc \in {"idle", "done", "panicked"}
    /\ req' = r
    /\ ResetLocals
    /\ alive' = alive
    /\ IF ~ValidateToken(r)
       THEN /\ reply' = ErrorReply(401, "Invalid Token")
            /\ pc' = "done"
       ELSE IF r.body = Nil
       THEN /\ reply' = ErrorReply(400, "Unexpected Error Occured")
            /\ pc' = "done"
       ELSE IF ~IsValidURL(r.body[1])
       THEN /\ reply' = ErrorReply(400, "Invalid URL")
            /\ pc' = "done"
       ELSE /\ reply' = Nil
            /\ pc' = "calculate"

(***************************************************************************)
(* CalculateOverallScore up to the call of GetResponseHeaderScore.          *)
(***************************************************************************)
CalculateOverallScore_Begin ==
    /\ alive
    /\ pc = "calculate"
    /\ LET domain == req.body[1]
           split == IF Contains(domain.Host, sColon)
                    THEN SplitHostPort(domain.Host)
                    ELSE [host |-> domain.Host, port |-> <<>>]
           p == CalculateProtocolScore(domain.Scheme)
       IN  /\ protocol' = domain.Scheme
           /\ host' = split.host
           /\ port' = IF split.port = <<>> THEN getDefaultPort(domain.Scheme) ELSE split.port
           /\ protocolScore' = p.score
           /\ messages' = Append(messages, p.message)
           /\ score' = score + p.score
           /\ maximumScore' = 5
    /\ pc' = "head"
    /\ UNCHANGED <<incidentVars, alive, req, probes, headerVars, mailVars, totalScore, certificates,
                   result, reply>>

(***************************************************************************)
(* GetResponseHeaderScore and the lines of CalculateOverallScore that take  *)
(* its result: the HEAD probe, then either the early return on its error or *)
(* the header scores added to the totals.                                   *)
(***************************************************************************)
HeadProbe_ContinueOnError ==
    /\ alive
    /\ pc = "head"
    /\ \E o \in HeadOutcomes(req.body[1], Responses) :
         /\ probes' = Append(probes, Probe("HEAD", o.outcome, req.body[1].raw))
         /\ IF o.err # Nil
            THEN /\ result' = [response |-> Nil, err |-> o.err]
                 /\ pc' = "spf"
                 /\ UNCHANGED <<score, maximumScore, headerVars>>
            ELSE LET h == GetResponseHeaderScore(o.response[1]) IN
                 /\ response' = o.response
                 /\ checks' = HeaderCheckScores(o.response[1].Header)
                 /\ headerScore' = h.totalScore
                 /\ maxScore' = h.maxScore
                 /\ maximumScore' = maximumScore + h.maxScore
                 /\ score' = score + h.totalScore
                 /\ pc' = "spf"
                 /\ UNCHANGED result
    /\ UNCHANGED <<incidentVars, alive, req, parsed, mailVars, totalScore, certificates, reply>>

HeadProbe ==
    /\ alive
    /\ pc = "head"
    /\ \E o \in HeadOutcomes(req.body[1], Responses) :
         /\ probes' = Append(probes, Probe("HEAD", o.outcome, req.body[1].raw))
         /\ IF o.err # Nil
            THEN /\ result' = [response |-> Nil, err |-> o.err]
                 /\ pc' = "respond"
                 /\ UNCHANGED <<score, maximumScore, headerVars>>
            ELSE LET h == GetResponseHeaderScore(o.response[1]) IN
                 /\ response' = o.response
                 /\ checks' = HeaderCheckScores(o.response[1].Header)
                 /\ headerScore' = h.totalScore
                 /\ maxScore' = h.maxScore
                 /\ maximumScore' = maximumScore + h.maxScore
                 /\ score' = score + h.totalScore
                 /\ pc' = "spf"
                 /\ UNCHANGED result
    /\ UNCHANGED <<incidentVars, alive, req, parsed, mailVars, totalScore, certificates, reply>>

(***************************************************************************)
(* GetMailServerConfigurationScore, first half: GetSPFScore.                *)
(***************************************************************************)
SPFProbe ==
    /\ alive
    /\ pc = "spf"
    /\ \E o \in TXTOutcomes :
         LET spf == GetSPFScore(o.out) IN
         /\ probes' = Append(probes, Probe("SPF", IF o.failed THEN "command failed" ELSE "ok", MailHost(host)))
         /\ txtOut' = Some(o.out)
         /\ IF spf.panic
            THEN /\ pc' = "panicked"
                 /\ UNCHANGED mail
            ELSE /\ mail' = [totalScore |-> 0 + spf.totalScore,
                             maximumScore |-> 0 + spf.maxScore]
                 /\ pc' = "dmarc"
    /\ UNCHANGED <<incidentVars, alive, req, parsed, score, maximumScore, headerVars, dmarcOut,
                   totalScore, certificates, result, reply>>

(***************************************************************************)
(* GetMailServerConfigurationScore, second half: GetDMARCScore, which ends  *)
(* the process with log.Fatal when the command fails; then the mail totals  *)
(* are added and the score is normalised.                                   *)
(***************************************************************************)
DMARCProbe ==
    /\ pc = "dmarc"
    /\ alive
    /\ \E o \in DMARCOutcomes :
         /\ probes' = Append(probes, Probe("DMARC", IF o.failed THEN "command failed" ELSE "ok", MailHost(host)))
         /\ dmarcOut' = Some(o.out)
         /\ IF o.failed
            THEN /\ alive' = FALSE
                 /\ pc' = "exited"
                 /\ UNCHANGED <<mail, score, maximumScore, totalScore>>
            ELSE LET m == [totalScore |-> mail.totalScore + GetDMARCScore(o.out),
                           maximumScore |-> mail.maximumScore + 5]
                 IN  /\ mail' = m
                     /\ score' = score + m.totalScore
                     /\ maximumScore' = maximumScore + m.maximumScore
                     /\ totalScore' = Some(Normalize(score + m.totalScore,
                                                     maximumScore + m.maximumScore))
                     /\ alive' = alive
                     /\ pc' = "cert"
    /\ UNCHANGED <<incidentVars, req, parsed, headerVars, txtOut, certificates, result, reply>>

(***************************************************************************)
(* models.GetCertificate and the return of CalculateOverallScore.  The      *)
(* summarizer reports a failed dial inside the summary and returns no       *)
(* error, so certError is nil.                                              *)
(***************************************************************************)
ScoresResponse(cert) ==
    [ scores |-> [url |-> req.body[1].raw, score |-> totalScore[1], messages |-> messages],
      certificate |-> cert ]

CertProbe_FatalDial ==
    /\ alive
    /\ pc = "cert"
    /\ \E d \in DialOutcomes :
         LET cert == GetCertificate(host, d) IN
         /\ probes' = Append(probes, Probe("TLS", IF d.ok THEN "ok" ELSE "dial failed",
                                           host \o sColon \o port))
         /\ certificates' = Some(cert)
         /\ result' = IF ~d.ok
                      THEN [response |-> Nil, err |-> Some(sErrRefused)]
                      ELSE [response |-> Some(ScoresResponse(cert)), err |-> Nil]
    /\ pc' = "respond"
    /\ UNCHANGED <<incidentVars, alive, req, parsed, score, maximumScore, headerVars, mailVars,
                   totalScore, reply>>

CertProbe ==
    /\ alive
    /\ pc = "cert"
    /\ \E d \in DialOutcomes :
         LET cert == GetCertificate(host, d) IN
         /\ probes' = Append(probes, Probe("TLS", IF d.ok THEN "ok" ELSE "dial failed",
                                           host \o sColon \o port))
         /\ certificates' = Some(cert)
         /\ result' = IF certError(d) # Nil
                      THEN [response |-> Nil, err |-> certError(d)]
                      ELSE [response |-> Some(ScoresResponse(cert)), err |-> Nil]
    /\ pc' = "respond"
    /\ UNCHANGED <<incidentVars, alive, req, parsed, score, maximumScore, headerVars, mailVars,
                   totalScore, reply>>

(***************************************************************************)
(* GetScore after CalculateOverallScore has returned.                       *)
(***************************************************************************)
Respond_NeverInvalidDomain ==
    /\ alive
    /\ pc = "respond"
    /\ reply' = IF result.err # Nil
                THEN ErrorReply(500, "Unexpected Error Occured")
                ELSE Some([code |-> 200, error |-> "", body |-> result.response])
    /\ pc' = "done"
    /\ UNCHANGED <<incidentVars, alive, req, probes, parsed, score, maximumScore, headerVars, mailVars,
                   totalScore, certificates, result>>

Respond ==
    /\ alive
    /\ pc = "respond"
    /\ reply' = IF result.err # Nil
                THEN (IF Contains(result.err[1], sNoSuchHost)
                      THEN ErrorReply(400, "Invalid Domain")
                      ELSE ErrorReply(500, "Unexpected Error Occured"))
                ELSE Some([code |-> 200, error |-> "", body |-> result.response])
    /\ pc' = "done"
    /\ UNCHANGED <<incidentVars, alive, req, probes, parsed, score, maximumScore, headerVars, mailVars,
                   totalScore, certificates, result>>

Next ==
    \/ \E r \in Requests : GetScore(r)
    \/ CalculateOverallScore_Begin
    \/ HeadProbe
    \/ SPFProbe
    \/ DMARCProbe
    \/ CertProbe
    \/ Respond

Spec ==
    Init /\ [][Next]_vars

(***************************************************************************)
(* The Header Scorer alone, on every response of AllResponses.              *)
(***************************************************************************)
InitHeader ==
    /\ pc = "headers"
    /\ alive = TRUE
    /\ req = NoRequest
    /\ probes = <<>>
    /\ protocol = <<>> /\ host = <<>> /\ port = <<>>
    /\ protocolScore = 0 /\ messages = <<>>
    /\ score = 0 /\ maximumScore = 0
    /\ headerScore = 0 /\ maxScore = 0
    /\ response \in {Some(r) : r \in AllResponses}
    /\ checks = <<>>
    /\ mail = NoMail /\ txtOut = Nil /\ dmarcOut = Nil
    /\ totalScore = Nil /\ certificates = Nil
    /\ result = NoResult
    /\ reply = Nil
    /\ feed = Nil /\ vuln = NoVuln

ScoreHeaders ==
    /\ pc = "headers"
    /\ LET h == GetResponseHeaderScore(response[1]) IN
       /\ checks' = HeaderCheckScores(response[1].Header)
       /\ headerScore' = h.totalScore
       /\ maxScore' = h.maxScore
    /\ pc' = "scored"
    /\ UNCHANGED <<incidentVars, alive, req, probes, parsed, score, maximumScore, response, mailVars,
                   totalScore, certificates, result, reply>>

NextHeader ==
    ScoreHeaders

SpecHeader ==
    InitHeader /\ [][NextHeader]_vars

(***************************************************************************)
(* GetSPFScore alone, on every output of up to MaxTXTLines lines: records   *)
(* with each of the four qualifiers, a record padded inside its quotes, a   *)
(* record without a qualifier, a record with no text, a line of one         *)
(* character and an empty line.                                             *)
(***************************************************************************)
InitSPF ==
    /\ pc = "txt"
    /\ alive = TRUE
    /\ req = NoRequest
    /\ probes = <<>>
    /\ protocol = <<>> /\ host = <<>> /\ port = <<>>
    /\ protocolScore = 0 /\ messages = <<>>
    /\ score = 0 /\ maximumScore = 0
    /\ headerScore = 0 /\ maxScore = 0
    /\ response = Nil /\ checks = <<>>
    /\ mail = NoMail /\ dmarcOut = Nil
    /\ txtOut \in { Some(JoinLines(q)) :
                        q \in SeqsUpTo({sTxtStrict, sTxtSoft, sTxtNeutral, sTxtPass, sTxtPadded,
                                        sTxtOther, sTxtNoText, sTxtOneChar, <<>>}, MaxTXTLines) }
    /\ totalScore = Nil /\ certificates = Nil
    /\ result = NoResult
    /\ reply = Nil
    /\ feed = Nil /\ vuln = NoVuln

ScoreSPF ==
    /\ pc = "txt"
    /\ LET spf == GetSPFScore(txtOut[1]) IN
       IF spf.panic
       THEN /\ pc' = "panicked"
            /\ UNCHANGED mail
       ELSE /\ mail' = [totalScore |-> spf.totalScore, maximumScore |-> spf.maxScore]
            /\ pc' = "scored"
    /\ UNCHANGED <<incidentVars, alive, req, probes, parsed, score, maximumScore, headerVars,
                   txtOut, dmarcOut, totalScore, certificates, result, reply>>

NextSPF ==
    ScoreSPF

SpecSPF ==
    InitSPF /\ [][NextSPF]_vars

(***************************************************************************)
(* GetPreviousVulnerabilitiesScore alone, on every feed of up to            *)
(* MaxIncidents incidents, and on a feed that cannot be read.               *)
(***************************************************************************)
MaxIncidents == 2

Incident(fixed, reported, fixedDate) ==
    [Fixed |-> fixed, ReportedDate |-> reported, FixedDate |-> fixedDate]

IncidentRecords ==
    { Incident(TRUE, dReported, d) :
        d \in {dReported, dFixed719h, dFixed720h, dFixed720hZone, dFixed720h1m, dEmpty} }
    \cup { Incident(TRUE, dEmpty, dFixed720h), Incident(FALSE, dReported, dEmpty) }

InitIncident ==
    /\ pc = "feed"
    /\ alive = TRUE
    /\ req = NoRequest
    /\ probes = <<>>
    /\ protocol = <<>> /\ host = <<>> /\ port = <<>>
    /\ protocolScore = 0 /\ messages = <<>>
    /\ score = 0 /\ maximumScore = 0
    /\ headerScore = 0 /\ maxScore = 0
    /\ response = Nil /\ checks = <<>>
    /\ mail = NoMail /\ txtOut = Nil /\ dmarcOut = Nil
    /\ totalScore = Nil /\ certificates = Nil
    /\ result = NoResult
    /\ reply = Nil
    /\ feed \in { Some([failed |-> FALSE, IncidentList |-> q]) :
                      q \in SeqsUpTo(IncidentRecords, MaxIncidents) }
                \cup { Some([failed |-> TRUE, IncidentList |-> <<>>]) }
    /\ vuln = NoVuln

ScoreIncidents ==
    /\ pc = "feed"
    /\ alive
    /\ LET v == GetPreviousVulnerabilitiesScore(feed[1]) IN
       IF v.fatal
       THEN /\ alive' = FALSE
            /\ pc' = "exited"
            /\ UNCHANGED vuln
       ELSE /\ vuln' = [totalScore |-> v.totalScore, maxScore |-> v.maxScore]
            /\ alive' = alive
            /\ pc' = "scored"
    /\ UNCHANGED <<feed, req, probes, parsed, score, maximumScore, headerVars, mailVars,
                   totalScore, certificates, result, reply>>

NextIncident ==
    ScoreIncidents

SpecIncident ==
    InitIncident /\ [][NextIncident]_vars

(***************************************************************************)
(*                               Claims                                     *)
(***************************************************************************)

\* C1: POST /scores checks the token, then decodes the body, then validates
\* the URL, and only then scores: a request with an invalid token is answered
\* 401 "Invalid Token", a request with a valid token and an invalid URL is
\* answered 400 "Invalid URL", and no probe is issued for either.
C1_GatesBeforeProbes ==
    /\ (pc # "idle" /\ ~req.tokenValid)
         => (pc = "done" /\ reply = ErrorReply(401, "Invalid Token") /\ probes = <<>>)
    /\ (pc # "idle" /\ req.tokenValid /\ req.body = Nil)
         => (pc = "done" /\ reply = ErrorReply(400, "Unexpected Error Occured")
             /\ probes = <<>>)
    /\ (pc # "idle" /\ req.tokenValid /\ req.body # Nil /\ req.body[1] = uExample)
         => (pc = "done" /\ reply = ErrorReply(400, "Invalid URL") /\ probes = <<>>)
    /\ probes # <<>>
         => (req.tokenValid /\ req.body # Nil /\ req.body[1] # uExample)

C1_Witness ==
    /\ pc = "done"
    /\ req.tokenValid
    /\ req.body = Some(uExample)
    /\ reply = ErrorReply(400, "Invalid URL")

\* C2: whenever CalculateOverallScore returns a response, 0 <= score <=
\* maximumScore and maximumScore > 0, and the normalized score (in
\* hundredths) lies between 0 and 100.
C2_ScoreWithinMaximum ==
    result.response # Nil
      => /\ 0 <= score
         /\ score <= maximumScore
         /\ maximumScore > 0
         /\ totalScore # Nil
         /\ 0 <= totalScore[1]
         /\ totalScore[1] <= 100
         /\ result.response[1].scores.score = totalScore[1]

C2_Witness ==
    /\ result.response # Nil
    /\ score = maximumScore
    /\ mail.maximumScore > 5
    /\ totalScore = Some(100)

\* The inputs of the scenario of C3.
ScenarioResponse ==
    [ Header |-> (XFrameHeader :> sXfDENY @@ HSTSHeader :> sHstsSub),
      Proto  |-> sHTTP20,
      TLS    |-> Some(VersionTLS12) ]

C3_Scenario ==
    /\ result.response # Nil
    /\ protocol = sHttps
    /\ response = Some(ScenarioResponse)
    /\ txtOut = Some(<<>>)
    /\ dmarcOut = Some(<<>>)

C4_HeadFailureAborts ==
    \A i \in DOMAIN probes :
        (probes[i].kind = "HEAD" /\ probes[i].outcome # "ok")
          => /\ i = Len(probes)
             /\ result.response = Nil
             /\ result.err # Nil
             /\ totalScore = Nil
             /\ pc \in {"respond", "done"}

C4_Witness ==
    /\ pc = "done"
    /\ Len(probes) = 1
    /\ probes[1].kind = "HEAD"
    /\ probes[1].outcome = "connection refused"
    /\ reply = ErrorReply(500, "Unexpected Error Occured")

\* C5: when CalculateOverallScore returns an error, GetScore answers 400
\* "Invalid Domain" exactly when the HEAD probe failed because the host did
\* not resolve, and 500 "Unexpected Error Occured" for every other error.
C5_UnresolvableHostDistinguished ==
    (pc = "done" /\ result.err # Nil)
      => LET unresolved == \E i \in DOMAIN probes :
                               /\ probes[i].kind = "HEAD"
                               /\ probes[i].outcome = "host not resolved"
         IN  /\ unresolved => reply = ErrorReply(400, "Invalid Domain")
             /\ ~unresolved => reply = ErrorReply(500, "Unexpected Error Occured")

C5_Witness ==
    /\ pc = "done"
    /\ result.err # Nil
    /\ probes[1].outcome = "host not resolved"
    /\ reply = ErrorReply(400, "Invalid Domain")

C7_LookupFailureNeverAborts ==
    \A i \in DOMAIN probes :
        (probes[i].kind \in {"SPF", "DMARC"} /\ probes[i].outcome # "ok")
          => (alive /\ pc \notin {"exited", "panicked"})

\* C8 as stated: the Protocol Scorer gives 5 of 5 for https, 0 of 5 for http,
\* and for any other scheme 0 of 0 with the message "Protocol Not Found",
\* adding nothing to either total; its achieved value is always 0 or 5.
C8_ProtocolContribution ==
    (pc = "head")
      => /\ protocolScore \in {0, 5}
         /\ protocol = sHttps => (score = 5 /\ maximumScore = 5)
         /\ protocol = sHttp => (score = 0 /\ maximumScore = 5)
         /\ protocol \notin {sHttp, sHttps}
              => (score = 0 /\ maximumScore = 0 /\ messages = <<"Protocol Not Found">>)

\* The header table of C9, but for the two cases in which the statement and
\* the amendment differ: h is the header map, c the seven check scores.
C9_Table(h, c) ==
    LET has(n) == n \in DOMAIN h IN
    /\ has(XSSHeader) /\ h[XSSHeader] = sZero => c[1] = 0
    /\ has(XSSHeader) /\ h[XSSHeader] = sXssBlock => c[1] = 5
    /\ ~has(XFrameHeader) => c[2] = 1
    /\ has(XFrameHeader) /\ h[XFrameHeader] \in {sXfDENY, sXfSameOriginPadded} => c[2] = 5
    /\ has(XFrameHeader) /\ h[XFrameHeader] = sXfAllowFrom => c[2] = 4
    /\ ~has(HSTSHeader) => c[3] = 2
    /\ has(HSTSHeader) /\ h[HSTSHeader] = sHstsPlain => c[3] = 4
    /\ has(HSTSHeader) /\ h[HSTSHeader] \in {sHstsSub, sHstsPreload} => c[3] = 5
    /\ c[4] = (IF has(CSPHeader) THEN 5 ELSE 3)
    /\ c[5] = (IF has(PKPHeader) THEN 5 ELSE 3)
    /\ ~has(RPHeader) => c[6] = 2
    /\ has(RPHeader) /\ h[RPHeader] \in {sNoReferrer, sRpMixedCase} => c[6] = 5
    /\ has(RPHeader) /\ h[RPHeader] \in {sNoReferrerWhenDowngrade, sOrigin,
                                         sOriginWhenCrossOrigin, sSameOriginRP,
                                         sStrictOrigin, sStrictOriginWhenCrossOrigin}
         => c[6] = 4
    /\ has(RPHeader) /\ h[RPHeader] = sUnsafeUrl => c[6] = 2
    /\ has(RPHeader) /\ h[RPHeader] = sRpBogus => c[6] = 0
    /\ c[7] = (IF has(XContentTypeHeader)
                  /\ h[XContentTypeHeader] \in {sNosniff, sXctMixedCase}
               THEN 5 ELSE 0)

C11_Points(line) ==
    IF line \in {sTxtStrict, sTxtPadded} THEN 5
    ELSE IF line = sTxtSoft THEN 3
    ELSE IF line = sTxtNeutral THEN 2
    ELSE 0

C11_Qualifies(line) ==
    line \in {sTxtStrict, sTxtPadded, sTxtSoft, sTxtNeutral, sTxtPass}

C11_Records ==
    {sTxtStrict, sTxtSoft, sTxtNeutral, sTxtPass, sTxtPadded, sTxtOther, sTxtNoText}

RECURSIVE C11_Expected(_)
C11_Expected(lines) ==
    IF lines = <<>> THEN [totalScore |-> 0, maximumScore |-> 0]
    ELSE LET rest == C11_Expected(Tail(lines)) IN
         [totalScore |-> C11_Points(Head(lines)) + rest.totalScore,
          maximumScore |-> (IF C11_Qualifies(Head(lines)) THEN 5 ELSE 0) + rest.maximumScore]

C11_InputLines ==
    ScanLines(txtOut[1], <<>>)

\* C11: for every list of TXT records, the SPF scorer adds 5, 3, 2 or 0 points
\* for each record ending in "-all", "~all", "?all" or "+all", ignores every
\* other record and returns maximum = 5 x (number of qualifying records); with
\* no qualifying record it returns 0 of 0.
C11_SPFTable ==
    (pc \in {"scored", "panicked"}
       /\ \A i \in 1..Len(C11_InputLines) : C11_InputLines[i] \in C11_Records)
      => /\ pc = "scored"
         /\ mail = C11_Expected(C11_InputLines)
         /\ (\A i \in 1..Len(C11_InputLines) : ~C11_Qualifies(C11_InputLines[i]))
              => mail = [totalScore |-> 0, maximumScore |-> 0]

\* A scored list of one qualifying record worth 3 and one record that is ignored.
C11_Witness ==
    /\ pc = "scored"
    /\ C11_InputLines = <<sTxtSoft, sTxtOther>>
    /\ mail = [totalScore |-> 3, maximumScore |-> 5]

\* The fixed incidents whose two dates are well-formed, by remediation time.
C12_Under720h ==
    { Incident(TRUE, dReported, d) : d \in {dReported, dFixed719h} }

C12_Exactly720h ==
    { Incident(TRUE, dReported, d) : d \in {dFixed720h, dFixed720hZone} }

C12_Over720h ==
    { Incident(TRUE, dReported, dFixed720h1m) }

C12_Dated ==
    C12_Under720h \cup C12_Exactly720h \cup C12_Over720h \cup {Incident(FALSE, dReported, dEmpty)}

RECURSIVE C12_Sum(_, _)
C12_Sum(list, ten) ==
    IF list = <<>> THEN 0
    ELSE (IF Head(list) \in ten THEN 10 ELSE IF Head(list).Fixed THEN 5 ELSE 0)
         + C12_Sum(Tail(list), ten)

C12_AllDated ==
    \A i \in 1..Len(feed[1].IncidentList) : feed[1].IncidentList[i] \in C12_Dated

\* C12 as stated: maximum = 10 x (number of incidents, fixed or not) and
\* achieved = the sum over fixed incidents of 10 when fixedDate - reportedDate
\* is under 720 hours and 5 otherwise, so that exactly 720 hours scores 5;
\* unfixed incidents add nothing and an empty list yields 0 of 0.
C12_Original ==
    (pc = "scored" /\ C12_AllDated)
      => /\ vuln.maxScore = 10 * Len(feed[1].IncidentList)
         /\ vuln.totalScore = C12_Sum(feed[1].IncidentList, C12_Under720h)

\* C12, amended: maximum = 10 x (number of incidents, fixed or not) and
\* achieved = the sum over fixed incidents of 10 when fixedDate - reportedDate
\* is at most 720 hours and 5 when it is more, so that exactly 720 hours
\* scores 10; unfixed incidents add nothing and an empty list yields 0 of 0.
C12_IncidentTable ==
    (pc = "scored" /\ C12_AllDated)
      => /\ vuln.maxScore = 10 * Len(feed[1].IncidentList)
         /\ vuln.totalScore = C12_Sum(feed[1].IncidentList, C12_Under720h \cup C12_Exactly720h)
         /\ feed[1].IncidentList = <<>> => vuln = [totalScore |-> 0, maxScore |-> 0]

\* A scored feed of one incident fixed after exactly 720 hours and one unfixed.
C12_Witness ==
    /\ pc = "scored"
    /\ feed[1].IncidentList = <<Incident(TRUE, dReported, dFixed720h), Incident(FALSE, dReported, dEmpty)>>
    /\ vuln = [totalScore |-> 10, maxScore |-> 20]

\* C13: the Aggregator sums the (achieved, maximum) pair of every scorer: in
\* every successful run the Incident Scorer has been given the domain's
\* incident feed, and the totals that are normalised are the sums of the
\* Protocol, Header, Mail-Auth and Incident scorers' contributions.
C13_TotalsIncludeIncidents ==
    (pc = "done" /\ reply # Nil /\ reply[1].code = 200)
      => /\ feed # Nil
         /\ score = protocolScore + headerScore + mail.totalScore + vuln.totalScore
         /\ maximumScore = 5 + maxScore + mail.maximumScore + vuln.maxScore
         /\ totalScore = Some(Normalize(score, maximumScore))

\* C14: GetSPFScore completes without a fault for every output of the TXT
\* lookup, an empty line or a line of a single character included: once it
\* has run it has returned a (score, maximum) pair.
C14_SPFNeverFaults ==
    pc # "txt" => pc = "scored"

=============================================================================
